---- MODULE Spec2Model ----
(***************************************************************************)
(* Contoso Suites dashboard pages: the endpoint resolver, the memoised     *)
(* hotel/booking fetchers, the chat dispatchers, the response formatter,   *)
(* the vector pipeline and the copilot transcript.                         *)
(*                                                                         *)
(* Text is a sequence of one-character strings, so that the string         *)
(* operations of the code (strip, startswith, replace, ...) are computed   *)
(* character by character as Python computes them.  A fixed phrase of the  *)
(* code or of the HTTP library is written as one element of the sequence   *)
(* when it holds no backslash, newline or numeral followed by a dot and    *)
(* neither begins nor ends with a blank: the operations treat it as a      *)
(* letter.                                                                 *)
(***************************************************************************)
EXTENDS Integers, Sequences, FiniteSets, TLC

VARIABLES
    secret,         \* st.secrets["api"]["endpoint"]: Missing, or the configured text
    resolved,       \* what a call of get_api_endpoint returned (Unset before the call)
    fmtIn,          \* the text handed to format_response
    fmtOut,         \* what format_response returned (Unset before the call)
    \* 2_API_Integration.py
    cacheHotels,    \* st.cache_data entry of get_hotels(): NotCached or the stored value
    cacheBookings,  \* st.cache_data entries of get_hotel_bookings, by hotel_id
    netCount,       \* requests issued so far, by request
    fetched,        \* the outcome of each GET issued so far (NoOutcome if not issued)
    retHotels,      \* the values get_hotels() returned to main, in call order
    retBookings,    \* the values get_hotel_bookings(id) returned to main, by id, in call order
    apiExc,         \* the exception that left main in the last render ("none" if none)
    chatBody,       \* the outcome of the last POST /Chat (NoOutcome before any)
    chatResult,     \* what invoke_chat_endpoint returned last (Unset before any)
    renders,        \* page renders so far
    \* the two chat dispatchers, called on one outcome of the POST
    dispOutcome,    \* the outcome handed to the dispatchers
    invokeOut,      \* what invoke_chat_endpoint returned (Unset before the call)
    copilotOut,     \* what send_message_to_copilot returned or raised (Unset before)
    \* 6_Copilot_Chat.py
    chat_messages,  \* st.session_state.chat_messages
    cpc,            \* main: "idle", or "awaiting" the reply to the POST
    prompt,         \* the prompt of the exchange under way or last made
    copilotOutcome, \* the outcome of the last POST /MaintenanceCopilotChat
    copilotResult,  \* what send_message_to_copilot returned or raised last
    copilotExc,     \* the exception that left main in the last run ("none" if none)
    prompts,        \* prompts entered so far
    copilotCalls,   \* POST /MaintenanceCopilotChat requests issued so far
    \* 3_Vector_Search.py
    vpc,            \* "idle", "vectorizing" (GET in flight), "searching" (POST in flight)
    searchArgs,     \* the arguments handle_vector_search is called with
    vecOutcome,     \* the outcome of this run's GET /Vectorize (NoOutcome if none yet)
    vecCalls,       \* GET /Vectorize requests issued in this run
    searchCalls,    \* POST /VectorSearch requests issued in this run
    payload,        \* the JSON body of the POST sent in this run (NoPayload if none)
    results,        \* what handle_vector_search returned (Unset before it returns)
    vMsgs,          \* the messages this run has shown
    vExc,           \* the exception that left the script in this run ("none" if none)
    submits         \* Submit clicks (or direct calls) so far

varsEndpoint == <<resolved>>
varsFormat == <<fmtIn, fmtOut>>
varsApi == <<cacheHotels, cacheBookings, netCount, fetched, retHotels, retBookings, apiExc,
             chatBody, chatResult, renders>>
varsDispatch == <<dispOutcome, invokeOut, copilotOut>>
varsCopilot == <<chat_messages, cpc, prompt, copilotOutcome, copilotResult, copilotExc,
                 prompts, copilotCalls>>
varsVector == <<vpc, searchArgs, vecOutcome, vecCalls, searchCalls, payload, results,
                vMsgs, vExc, submits>>
vars == <<secret, varsEndpoint, varsFormat, varsApi, varsDispatch, varsCopilot, varsVector>>

\* markers that are no text: an absent configuration key, a call not yet made
Missing == <<"<missing>">>
Unset == <<"<unset>">>

-----------------------------------------------------------------------------
(* Bounds of the model *)

MaxSlashes == 2     \* most slashes that end a configured endpoint
MaxApiSuffix == 1   \* most "/api" segments a configured endpoint already has
MaxLen == 4         \* longest text enumerated for format_response
MaxHotels == 2      \* hotel ids are 1..MaxHotels
MaxRenders == 2     \* renders of the API integration page in one session
MaxPrompts == 2     \* prompts entered on the copilot page in one session
MaxDim == 2         \* longest embedding
MaxSubmits == 2     \* Submit clicks on the vector search page in one session

HotelIds == 1..MaxHotels

-----------------------------------------------------------------------------
(* The parts of the state a specification leaves alone *)

NotCached == [kind |-> "<not cached>", items |-> <<>>]
NoOutcome == [status |-> "<none>", body |-> [kind |-> "<none>", items |-> <<>>]]

IdleEndpoint == resolved = Unset
IdleFormat == fmtIn = <<>> /\ fmtOut = Unset
IdleApi ==
    /\ cacheHotels = NotCached
    /\ cacheBookings = [i \in HotelIds |-> NotCached]
    /\ netCount = [hotels |-> 0, bookings |-> [i \in HotelIds |-> 0], chat |-> 0]
    /\ fetched = [hotels |-> NoOutcome, bookings |-> [i \in HotelIds |-> NoOutcome]]
    /\ retHotels = <<>>
    /\ retBookings = [i \in HotelIds |-> <<>>]
    /\ apiExc = "none"
    /\ chatBody = NoOutcome
    /\ chatResult = Unset
    /\ renders = 0
IdleDispatch == dispOutcome = NoOutcome /\ invokeOut = Unset /\ copilotOut = Unset
IdleCopilot ==
    /\ chat_messages = <<>>
    /\ cpc = "idle"
    /\ prompt = <<>>
    /\ copilotOutcome = NoOutcome
    /\ copilotResult = Unset
    /\ copilotExc = "none"
    /\ prompts = 0
    /\ copilotCalls = 0
NoPayload == [url |-> <<>>, queryVector |-> <<>>, maxResults |-> 0,
              minimumSimilarityScore |-> 0]
NoResult == [kind |-> "<unset>", items |-> <<>>]
NoArgs == [query_vector_list |-> <<>>, max_results |-> 0, minimum_similarity_score |-> 0]
IdleVector ==
    /\ vpc = "idle"
    /\ searchArgs = NoArgs
    /\ vecOutcome = NoOutcome
    /\ vecCalls = 0
    /\ searchCalls = 0
    /\ payload = NoPayload
    /\ results = NoResult
    /\ vMsgs = {}
    /\ vExc = "none"
    /\ submits = 0

-----------------------------------------------------------------------------
(* Python str operations *)

BS == "\\"
NL == "\n"
Whitespace == {" ", NL}

StartsWith(s, p) == Len(s) >= Len(p) /\ SubSeq(s, 1, Len(p)) = p
EndsWith(s, p) == Len(s) >= Len(p) /\ SubSeq(s, Len(s) - Len(p) + 1, Len(s)) = p

RECURSIVE LStripSet(_, _)
LStripSet(s, cs) ==
    IF s # <<>> /\ Head(s) \in cs THEN LStripSet(Tail(s), cs) ELSE s

RECURSIVE RStripSet(_, _)
RStripSet(s, cs) ==
    IF s # <<>> /\ s[Len(s)] \in cs THEN RStripSet(SubSeq(s, 1, Len(s) - 1), cs) ELSE s

Strip(s) == RStripSet(LStripSet(s, Whitespace), Whitespace)

\* str.replace(old, new): the non-overlapping occurrences, left to right, in one pass
RECURSIVE Replace(_, _, _)
Replace(s, old, new) ==
    IF Len(s) < Len(old) THEN s
    ELSE IF SubSeq(s, 1, Len(old)) = old
         THEN new \o Replace(SubSeq(s, Len(old) + 1, Len(s)), old, new)
         ELSE <<Head(s)>> \o Replace(Tail(s), old, new)

\* s occurs in t as a substring
Contains(t, s) == \E i \in 1..(Len(t) - Len(s) + 1) : SubSeq(t, i, i + Len(s) - 1) = s

RECURSIVE Repeat(_, _)
Repeat(s, n) == IF n = 0 THEN <<>> ELSE s \o Repeat(s, n - 1)

-----------------------------------------------------------------------------
(* get_api_endpoint *)

Http == <<"h", "t", "t", "p">>
HttpScheme == <<"h", "t", "t", "p", ":", "/", "/">>
Https == <<"h", "t", "t", "p", "s", ":", "/", "/">>
Slash == <<"/">>
Api == <<"/", "a", "p", "i">>

get_api_endpoint(sec) ==
    IF sec = Missing THEN <<>>      \* KeyError: st.error(...) and return ""
    ELSE LET a == Strip(sec)
             b == IF ~StartsWith(a, Http) THEN Https \o LStripSet(a, {"/"}) ELSE a
         IN  IF ~EndsWith(b, Api) THEN RStripSet(b, {"/"}) \o Api ELSE b

\* the configured endpoints of the model: optional blanks, an optional scheme or
\* leading slashes, a host, "/api" segments, trailing slashes, optional blanks
Hosts == {<<"x">>, <<"x", ".", "y">>}
Leads == {<<>>, HttpScheme, Https, Slash, Slash \o Slash, Http}
Blanks == {<<>>, <<" ">>}
EndpointSecrets ==
    { bl \o ld \o h \o Repeat(Api, k) \o Repeat(Slash, j) \o br :
        bl \in Blanks, ld \in Leads, h \in Hosts,
        k \in 0..MaxApiSuffix, j \in 0..MaxSlashes, br \in Blanks }

InitEndpoint ==
    /\ secret \in EndpointSecrets \cup {Missing}
    /\ resolved = Unset
    /\ IdleFormat /\ IdleApi /\ IdleDispatch /\ IdleCopilot /\ IdleVector

ResolveEndpoint ==
    /\ resolved = Unset
    /\ resolved' = get_api_endpoint(secret)
    /\ UNCHANGED <<secret, varsFormat, varsApi, varsDispatch, varsCopilot, varsVector>>

NextEndpoint == ResolveEndpoint

SpecEndpoint == InitEndpoint /\ [][NextEndpoint]_vars

-----------------------------------------------------------------------------
(* format_response *)

Digits == <<"1", "2", "3", "4", "5", "6", "7", "8", "9">>

\* for i in range(1, 10): response_text = response_text.replace(f"{i}.", "-")
RECURSIVE ReplaceNumerals(_, _)
ReplaceNumerals(s, i) ==
    IF i > 9 THEN s
    ELSE ReplaceNumerals(Replace(s, <<Digits[i], ".">>, <<"-">>), i + 1)

format_response_noNumerals(t) ==
    Strip(Replace(Replace(t, <<BS, "n">>, <<NL>>), <<NL, NL>>, <<NL>>))

format_response(t) ==
    LET a == Replace(t, <<BS, "n">>, <<NL>>)
        b == Replace(a, <<NL, NL>>, <<NL>>)
        c == ReplaceNumerals(b, 1)
    IN  Strip(c)

FormatChars == {BS, "n", NL, "1", "2", ".", "-", " "}

RECURSIVE TextsUpTo(_)
TextsUpTo(n) ==
    IF n = 0 THEN {<<>>}
    ELSE LET shorter == TextsUpTo(n - 1)
         IN  shorter \cup {Append(s, c) : s \in {x \in shorter : Len(x) = n - 1}, c \in FormatChars}

\* `1. foo\n2. bar` with a literal backslash-n
NumberedListText ==
    <<"1", ".", " ", "f", "o", "o", BS, "n", "2", ".", " ", "b", "a", "r">>
BulletListText == <<"-", " ", "f", "o", "o", NL, "-", " ", "b", "a", "r">>

FormatInputs == TextsUpTo(MaxLen) \cup {NumberedListText}

InitFormat ==
    /\ secret = Missing
    /\ fmtIn \in FormatInputs
    /\ fmtOut = Unset
    /\ IdleEndpoint /\ IdleApi /\ IdleDispatch /\ IdleCopilot /\ IdleVector

FormatResponse ==
    /\ fmtOut = Unset
    /\ fmtOut' = format_response(fmtIn)
    /\ UNCHANGED <<secret, fmtIn, varsEndpoint, varsApi, varsDispatch, varsCopilot,
                   varsVector>>

NextFormat == FormatResponse

SpecFormat == InitFormat /\ [][NextFormat]_vars

-----------------------------------------------------------------------------
(* HTTP outcomes and JSON values (what requests hands to the code) *)

Quote == "\""
PyNone == <<"<None>">>             \* a JSON null once parsed: Python's None
IsText(v) == v # PyNone            \* isinstance(v, str)

JList(items) == [kind |-> "list", items |-> items]
JDict == [kind |-> "dict", items |-> <<[hasKeys |-> FALSE, hotelID |-> 0]>>]
NotJson == [kind |-> "notjson", items |-> <<>>]
EmptyList == JList(<<>>)
Hotel(i) == [hasKeys |-> TRUE, hotelID |-> i]    \* {"hotelID": i, "hotelName": ...}
BadRecord == [hasKeys |-> FALSE, hotelID |-> 0]  \* a record without "hotelID"

\* bool(v) of a parsed JSON list or dictionary
Truthy(v) == v.items # <<>>

FailureStatuses == {"timeout", "connection", "http_error"}
Failures == [status : FailureStatuses, body : {NotJson}]
Ok(body) == [status |-> "ok", body |-> body]

HotelBodies ==
    {JList([i \in 1..k |-> Hotel(i)]) : k \in 0..MaxHotels}
        \cup {JList(<<BadRecord>>), JDict, NotJson}
BookingBodies == {EmptyList, JList(<<Hotel(0)>>), JDict, NotJson}
HotelOutcomes == Failures \cup {Ok(b) : b \in HotelBodies}
BookingOutcomes == Failures \cup {Ok(b) : b \in BookingBodies}

\* json.dumps of a string, without the quotes
RECURSIVE JsonEscape(_)
JsonEscape(m) ==
    IF m = <<>> THEN <<>>
    ELSE LET c == Head(m)
         IN  (IF c = NL THEN <<BS, "n">>
              ELSE IF c \in {BS, Quote} THEN <<BS, c>>
              ELSE <<c>>) \o JsonEscape(Tail(m))
JsonString(m) == <<Quote>> \o JsonEscape(m) \o <<Quote>>

\* A response body: its raw text (response.text), what response.json() makes of it
\* (kind, hasMessage, message) and what str() makes of the parsed value.
DictMessage(m) ==
    [kind |-> "dict", hasMessage |-> TRUE, message |-> m,
     text |-> <<"{", Quote, "message", Quote, ":", " ">> \o JsonString(m) \o <<"}">>,
     str |-> <<>>]
DictNullMessage ==
    [kind |-> "dict", hasMessage |-> TRUE, message |-> PyNone,
     text |-> <<"{", Quote, "message", Quote, ":", " ", "null", "}">>, str |-> <<>>]
DictOther ==
    [kind |-> "dict", hasMessage |-> FALSE, message |-> <<>>,
     text |-> <<"{", Quote, "error", Quote, ":", " ", Quote, "x", Quote, "}">>, str |-> <<>>]
ListBody ==
    [kind |-> "list", hasMessage |-> FALSE, message |-> <<>>,
     text |-> <<"[", "]">>, str |-> <<"[", "]">>]
NullBody ==
    [kind |-> "null", hasMessage |-> FALSE, message |-> <<>>,
     text |-> <<"null">>, str |-> <<"None">>]
StringBody(m) ==
    [kind |-> "string", hasMessage |-> FALSE, message |-> <<>>,
     text |-> JsonString(m), str |-> m]
PlainBody(m) ==
    [kind |-> "notjson", hasMessage |-> FALSE, message |-> <<>>, text |-> m, str |-> <<>>]

\* reply texts of the chat services
ParagraphText == <<"a", NL, NL, NL, "b">>
VersionText == <<"v", "1", ".", "2">>
ReplyTexts == {<<"o", "k">>, <<>>, NumberedListText, ParagraphText, VersionText}

ChatBodies ==
    {DictMessage(m) : m \in ReplyTexts} \cup {PlainBody(m) : m \in ReplyTexts}
        \cup {StringBody(<<"o", "k">>), DictNullMessage, DictOther, ListBody, NullBody}
NoBody == PlainBody(<<>>)
ChatOutcomes == [status : FailureStatuses, body : {NoBody}] \cup {Ok(b) : b \in ChatBodies}

\* str(e) of the HTTPError that raise_for_status raises
HttpErrorText(url) ==
    <<"500", " ", "Server Error: Internal Server Error for url:", " ">> \o url

-----------------------------------------------------------------------------
(* 2_API_Integration.py *)

ApiSecrets == {Missing, <<"x">>}
Questions == {<<>>, <<" ">>, <<"q">>}

get_hotels(ep, o) ==
    IF ep = <<>> THEN EmptyList
    ELSE IF o.status # "ok" THEN EmptyList          \* RequestException
    ELSE IF o.body.kind = "notjson" THEN EmptyList  \* requests' JSONDecodeError is one too
    ELSE o.body

get_hotel_bookings(ep, hotel_id, o) ==
    IF ep = <<>> THEN EmptyList
    ELSE IF o.status # "ok" THEN EmptyList
    ELSE IF o.body.kind = "notjson" THEN EmptyList
    ELSE o.body

\* the requests one run of a fetcher's body issues
FetchRequests(ep) == IF ep = <<>> THEN 0 ELSE 1

\* @st.cache_data: the entry after a call that computed `value` on a miss
CacheStore_skipEmpty(entry, value) ==
    IF entry # NotCached THEN entry
    ELSE IF value = EmptyList THEN NotCached ELSE value

CacheStore(entry, value) == IF entry # NotCached THEN entry ELSE value

ChatConfigErrorText == <<"API configuration error.">>
NoValidResponseText == <<"No valid response received.">>
UnexpectedFormatPrefix == <<"Unexpected API response format:", " ">>
InvalidJsonPrefix == <<"API returned invalid JSON:", " ">>
ChatTimeoutText == <<"Timeout Error: The Chat API took too long to respond.">>
ChatConnectionText == <<"Connection Error: Cannot reach the Chat API.">>
ApiErrorPrefix == <<"API Error:", " ">>
ChatPath == <<"/", "Chat">>

invoke_chat_endpoint_rawText(ep, question, o) ==
    IF ep = <<>> THEN ChatConfigErrorText
    ELSE IF o.status = "timeout" THEN ChatTimeoutText
    ELSE IF o.status = "connection" THEN ChatConnectionText
    ELSE IF o.status = "http_error" THEN ApiErrorPrefix \o HttpErrorText(ep \o ChatPath)
    ELSE IF o.body.kind = "notjson" THEN o.body.text
    ELSE IF o.body.kind = "dict"
         THEN (IF o.body.hasMessage THEN o.body.message ELSE NoValidResponseText)
    ELSE UnexpectedFormatPrefix \o o.body.str

invoke_chat_endpoint(ep, question, o) ==
    IF ep = <<>> THEN ChatConfigErrorText
    ELSE IF o.status = "timeout" THEN ChatTimeoutText
    ELSE IF o.status = "connection" THEN ChatConnectionText
    ELSE IF o.status = "http_error" THEN ApiErrorPrefix \o HttpErrorText(ep \o ChatPath)
    ELSE IF o.body.kind = "notjson" THEN InvalidJsonPrefix \o o.body.text   \* ValueError
    ELSE IF o.body.kind = "dict"
         THEN (IF o.body.hasMessage THEN o.body.message ELSE NoValidResponseText)
    ELSE UnexpectedFormatPrefix \o o.body.str

\* hotels = [{"id": hotel["hotelID"], ...} for hotel in hotels_json]
HotelsException(v) ==
    IF v.kind = "dict" THEN "TypeError"     \* iterating a dict yields its keys (str)
    ELSE IF \E i \in 1..Len(v.items) : ~v.items[i].hasKeys THEN "KeyError"
    ELSE "none"

InitApi ==
    /\ secret \in ApiSecrets
    /\ IdleApi /\ IdleEndpoint /\ IdleFormat /\ IdleDispatch /\ IdleCopilot /\ IdleVector

\* main(), up to the early return on an empty hotel list or the failing comprehension
RenderStopsAtHotels(hotels) == ~Truthy(hotels) \/ HotelsException(hotels) # "none"

\* the outcomes the network can give a request; one placeholder when none is sent
OutcomesIf(sent, outcomes) == IF sent THEN outcomes ELSE {CHOOSE o \in outcomes : TRUE}

RenderApiPage ==
    /\ renders < MaxRenders
    /\ renders' = renders + 1
    /\ LET ep == get_api_endpoint(secret)
           hMiss == cacheHotels = NotCached
           hNet == IF hMiss THEN FetchRequests(ep) ELSE 0
       IN  \E oh \in OutcomesIf(hNet = 1, HotelOutcomes) :
           LET hotels == IF hMiss THEN get_hotels(ep, oh) ELSE cacheHotels
           IN  /\ cacheHotels' = CacheStore(cacheHotels, hotels)
               /\ retHotels' = Append(retHotels, hotels)
               /\ IF RenderStopsAtHotels(hotels)
                  THEN /\ apiExc' = (IF Truthy(hotels) THEN HotelsException(hotels)
                                     ELSE "none")
                       /\ netCount' = [netCount EXCEPT !.hotels = @ + hNet]
                       /\ fetched' = [fetched EXCEPT !.hotels = IF hNet = 1 THEN oh ELSE @]
                       /\ UNCHANGED <<cacheBookings, retBookings, chatBody, chatResult>>
                  ELSE \E sel \in 1..Len(hotels.items), click \in BOOLEAN,
                          question \in Questions :
                       LET hotel_id == hotels.items[sel].hotelID
                           bMiss == cacheBookings[hotel_id] = NotCached
                           bNet == IF bMiss THEN FetchRequests(ep) ELSE 0
                           asks == click /\ Strip(question) # <<>>
                       IN  \E ob \in OutcomesIf(bNet = 1, BookingOutcomes),
                              oc \in OutcomesIf(asks, ChatOutcomes) :
                           LET bookings ==
                                   IF bMiss THEN get_hotel_bookings(ep, hotel_id, ob)
                                   ELSE cacheBookings[hotel_id]
                               response_text == invoke_chat_endpoint(ep, question, oc)
                           IN  /\ cacheBookings' =
                                    [cacheBookings EXCEPT
                                        ![hotel_id] = CacheStore(@, bookings)]
                               /\ retBookings' =
                                    [retBookings EXCEPT ![hotel_id] = Append(@, bookings)]
                               /\ netCount' =
                                    [netCount EXCEPT
                                        !.hotels = @ + hNet,
                                        !.bookings[hotel_id] = @ + bNet,
                                        !.chat = @ + (IF asks THEN 1 ELSE 0)]
                               /\ fetched' =
                                    [fetched EXCEPT
                                        !.hotels = IF hNet = 1 THEN oh ELSE @,
                                        !.bookings[hotel_id] = IF bNet = 1 THEN ob ELSE @]
                               /\ IF asks
                                  THEN /\ chatBody' = oc
                                       /\ chatResult' = response_text
                                       \* response_text.strip() of a value that is no str
                                       /\ apiExc' = (IF IsText(response_text) THEN "none"
                                                     ELSE "AttributeError")
                                  ELSE /\ apiExc' = "none"
                                       /\ UNCHANGED <<chatBody, chatResult>>
    /\ UNCHANGED <<secret, varsEndpoint, varsFormat, varsDispatch, varsCopilot, varsVector>>

NextApi == RenderApiPage

Spec == InitApi /\ [][NextApi]_vars

-----------------------------------------------------------------------------
(* 6_Copilot_Chat.py *)

CopilotTimeoutText == <<"Timeout Error: The Copilot API took too long to respond.">>
CopilotConnectionText == <<"Connection Error: Cannot reach the Copilot API.">>
CopilotPath == <<"/", "MaintenanceCopilotChat">>
AttributeError == <<"<AttributeError>">>   \* format_response of a value that is no str
Raised(r) == r = AttributeError

send_message_to_copilot_noTimeoutCase(ep, message, o) ==
    IF ep = <<>> THEN ChatConfigErrorText
    ELSE IF o.status = "connection" THEN CopilotConnectionText
    ELSE IF o.status # "ok" THEN ApiErrorPrefix \o HttpErrorText(ep \o CopilotPath)
    ELSE IF o.body.kind = "dict" /\ o.body.hasMessage
         THEN (IF IsText(o.body.message) THEN format_response(o.body.message)
               ELSE AttributeError)
    ELSE format_response(o.body.text)

send_message_to_copilot(ep, message, o) ==
    IF ep = <<>> THEN ChatConfigErrorText
    ELSE IF o.status = "timeout" THEN CopilotTimeoutText
    ELSE IF o.status = "connection" THEN CopilotConnectionText
    ELSE IF o.status = "http_error" THEN ApiErrorPrefix \o HttpErrorText(ep \o CopilotPath)
    ELSE IF o.body.kind = "dict" /\ o.body.hasMessage
         THEN (IF IsText(o.body.message) THEN format_response(o.body.message)
               ELSE AttributeError)
    ELSE format_response(o.body.text)   \* other JSON, or ValueError: the raw text

-----------------------------------------------------------------------------
(* The two dispatchers on every outcome of the POST *)

InitDispatch ==
    /\ secret \in ApiSecrets
    /\ dispOutcome \in ChatOutcomes
    /\ invokeOut = Unset
    /\ copilotOut = Unset
    /\ IdleEndpoint /\ IdleFormat /\ IdleApi /\ IdleCopilot /\ IdleVector

InvokeChat ==
    /\ invokeOut = Unset
    /\ invokeOut' = invoke_chat_endpoint(get_api_endpoint(secret), <<"q">>, dispOutcome)
    /\ UNCHANGED <<secret, dispOutcome, copilotOut, varsEndpoint, varsFormat, varsApi,
                   varsCopilot, varsVector>>

SendCopilot ==
    /\ copilotOut = Unset
    /\ copilotOut' = send_message_to_copilot(get_api_endpoint(secret), <<"q">>, dispOutcome)
    /\ UNCHANGED <<secret, dispOutcome, invokeOut, varsEndpoint, varsFormat, varsApi,
                   varsCopilot, varsVector>>

NextDispatch == InvokeChat \/ SendCopilot

SpecDispatch == InitDispatch /\ [][NextDispatch]_vars

-----------------------------------------------------------------------------
(* The copilot page: main() *)

Prompts == {<<"p">>, <<"1", ".", "x">>}
Turn(role, content) == [role |-> role, content |-> content]

InitCopilot ==
    /\ secret \in ApiSecrets
    /\ IdleCopilot /\ IdleEndpoint /\ IdleFormat /\ IdleApi /\ IdleDispatch /\ IdleVector

\* what main does with the dispatcher's result: format it again, store the turn
StoreAssistantTurn(transcript, response) ==
    Append(transcript, Turn("assistant", format_response(response)))

\* a prompt is entered: the user turn is stored, then the dispatcher is called; with
\* no configured endpoint it returns at once and main stores the assistant turn
CopilotPrompt ==
    /\ cpc = "idle"
    /\ prompts < MaxPrompts
    /\ prompts' = prompts + 1
    /\ \E p \in Prompts :
        LET ep == get_api_endpoint(secret)
            withUser == Append(chat_messages, Turn("user", p))
        IN  /\ prompt' = p
            /\ copilotExc' = "none"
            /\ IF ep = <<>>
               THEN LET response == send_message_to_copilot(ep, p, NoOutcome)
                    IN  /\ chat_messages' = StoreAssistantTurn(withUser, response)
                        /\ copilotResult' = response
                        /\ copilotOutcome' = NoOutcome
                        /\ UNCHANGED <<cpc, copilotCalls>>
               ELSE /\ chat_messages' = withUser
                    /\ cpc' = "awaiting"
                    /\ copilotCalls' = copilotCalls + 1
                    /\ UNCHANGED <<copilotResult, copilotOutcome>>
    /\ UNCHANGED <<secret, varsEndpoint, varsFormat, varsApi, varsDispatch, varsVector>>

\* the POST resolves: the dispatcher returns or raises, main stores the assistant turn
CopilotResolve ==
    /\ cpc = "awaiting"
    /\ cpc' = "idle"
    /\ \E o \in ChatOutcomes :
        LET response == send_message_to_copilot(get_api_endpoint(secret), prompt, o)
        IN  /\ copilotOutcome' = o
            /\ copilotResult' = response
            /\ IF Raised(response)
               THEN /\ copilotExc' = "AttributeError"
                    /\ UNCHANGED chat_messages
               ELSE /\ copilotExc' = "none"
                    /\ chat_messages' = StoreAssistantTurn(chat_messages, response)
    /\ UNCHANGED <<secret, prompt, prompts, copilotCalls, varsEndpoint, varsFormat,
                   varsApi, varsDispatch, varsVector>>

NextCopilot == CopilotPrompt \/ CopilotResolve

SpecCopilot == InitCopilot /\ [][NextCopilot]_vars

-----------------------------------------------------------------------------
(* 3_Vector_Search.py *)

\* Numbers are counted in units of 10^-9, similarity scores in units of 10^-3.
Float(v) == [t |-> "float", v |-> v]
JsonTrue == [t |-> "bool", v |-> 1000000000]     \* float(True) = 1.0
JsonText == [t |-> "str", v |-> 0]
ResultRow == [t |-> "row", v |-> 0]
NoneResult == [kind |-> "None", items |-> <<>>]

NumberElems == {Float(123456789), Float(1000000000)}
JsonElems == NumberElems \cup {JsonTrue, JsonText}

RECURSIVE ListsUpTo(_, _)
ListsUpTo(elems, n) ==
    IF n = 0 THEN {<<>>}
    ELSE LET shorter == ListsUpTo(elems, n - 1)
         IN  shorter \cup {Append(l, e) : l \in {x \in shorter : Len(x) = n - 1}, e \in elems}

VectorBodies ==
    {JList(l) : l \in ListsUpTo(JsonElems, MaxDim)}
        \cup {[kind |-> "dict", items |-> <<>>], NotJson}
VectorOutcomes == Failures \cup {Ok(b) : b \in VectorBodies}
SearchBodies ==
    {EmptyList, JList(<<ResultRow>>), [kind |-> "dict", items |-> <<>>], NotJson}
SearchOutcomes == Failures \cup {Ok(b) : b \in SearchBodies}

\* module level: the endpoint gets a scheme, the URLs the "/api" prefix
VectorEndpoint(sec) == IF ~StartsWith(sec, Http) THEN Https \o sec ELSE sec
vectorize_url(sec) == VectorEndpoint(sec) \o <<"/", "a", "p", "i", "/", "Vectorize">>
vector_search_url(sec) == VectorEndpoint(sec) \o <<"/", "a", "p", "i", "/", "VectorSearch">>

\* isinstance(x, (int, float)): bool is a subclass of int
PyIsNumber(x) == x.t \in {"int", "float", "bool"}

handle_query_vectorization_fallback(o) ==
    IF o.status # "ok" THEN <<Float(0)>>
    ELSE IF o.body.kind = "list" /\ \A i \in 1..Len(o.body.items) : PyIsNumber(o.body.items[i])
         THEN o.body.items
    ELSE <<>>

handle_query_vectorization(o) ==
    IF o.status # "ok" THEN <<>>                 \* Timeout, ConnectionError, HTTPError
    ELSE IF o.body.kind = "notjson" THEN <<>>    \* JSONDecodeError, a RequestException
    ELSE IF o.body.kind = "list" /\ \A i \in 1..Len(o.body.items) : PyIsNumber(o.body.items[i])
         THEN o.body.items
    ELSE <<>>

VectorizeMessages(o) ==
    IF o.status = "timeout" THEN {"vectorize_timeout"}
    ELSE IF o.status = "connection" THEN {"vectorize_connection"}
    ELSE IF o.status = "http_error" \/ o.body.kind = "notjson" THEN {"vectorize_api_error"}
    ELSE IF handle_query_vectorization(o) = <<>> /\ o.body # EmptyList
         THEN {"vectorize_invalid_format"}
    ELSE {}

\* if not query_vector_list: "Query vector is empty", return None
SearchRejects_never(query_vector_list) == FALSE

SearchRejects(query_vector_list) == query_vector_list = <<>>

\* round(x, 6) and round(x, 2), away from the ties
Round6(v) == LET r == v % 1000 IN IF r < 500 THEN v - r ELSE v - r + 1000
Round2(v) == LET r == v % 10 IN IF r < 5 THEN v - r ELSE v - r + 10

SearchPayload(url, args) ==
    [url |-> url,
     queryVector |-> [i \in 1..Len(args.query_vector_list) |->
                         Round6(args.query_vector_list[i].v)],
     maxResults |-> args.max_results,
     minimumSimilarityScore |-> Round2(args.minimum_similarity_score)]

\* what handle_vector_search returns once the POST has resolved
SearchReturns(o) ==
    IF o.status = "ok" /\ o.body.kind = "list" THEN o.body ELSE NoneResult

SearchMessages(o) ==
    IF o.status = "timeout" THEN {"search_timeout"}
    ELSE IF o.status = "connection" THEN {"search_connection"}
    ELSE IF o.status = "http_error" \/ o.body.kind = "notjson" THEN {"search_api_error"}
    ELSE IF o.body.kind # "list" THEN {"search_invalid_format"}
    ELSE {}

VectorSecrets == {Missing, <<"x">>}
Queries == {<<>>, <<" ">>, <<"q">>}
MaxResultsChoices == {0, 5}
SliderChoices == {0, 800}

InitVector ==
    /\ secret \in VectorSecrets
    /\ IdleVector /\ IdleEndpoint /\ IdleFormat /\ IdleApi /\ IdleDispatch /\ IdleCopilot

\* One run of the script, up to its first request: with the key absent the run ends
\* at module level, before any widget is drawn; otherwise Submit was clicked.
Submit ==
    /\ vpc = "idle"
    /\ submits < MaxSubmits
    /\ submits' = submits + 1
    /\ vecOutcome' = NoOutcome
    /\ searchCalls' = 0
    /\ payload' = NoPayload
    /\ results' = NoResult
    /\ \E query \in Queries, max_results \in MaxResultsChoices,
          minimum_similarity_score \in SliderChoices :
        IF secret = Missing
        THEN \* st.secrets["api"]["endpoint"] at module level: KeyError
             /\ vExc' = "KeyError"
             /\ vMsgs' = {}
             /\ vecCalls' = 0
             /\ UNCHANGED <<vpc, searchArgs>>
        ELSE IF Strip(query) = <<>>
        THEN /\ vMsgs' = {"enter_query"}
             /\ vExc' = "none"
             /\ vecCalls' = 0
             /\ UNCHANGED <<vpc, searchArgs>>
        ELSE /\ vMsgs' = {}
             /\ vExc' = "none"
             /\ vecCalls' = 1
             /\ vpc' = "vectorizing"
             /\ searchArgs' = [query_vector_list |-> <<>>,
                               max_results |-> max_results,
                               minimum_similarity_score |-> minimum_similarity_score]
    /\ UNCHANGED <<secret, varsEndpoint, varsFormat, varsApi, varsDispatch, varsCopilot>>

\* GET /Vectorize resolves; main checks the vector and calls handle_vector_search,
\* which runs up to its POST.
VectorizeResolve ==
    /\ vpc = "vectorizing"
    /\ \E o \in VectorOutcomes :
        LET query_vector_list == handle_query_vectorization(o)
            args == [searchArgs EXCEPT !.query_vector_list = query_vector_list]
        IN  /\ vecOutcome' = o
            /\ IF query_vector_list = <<>>
               THEN /\ vMsgs' = vMsgs \cup VectorizeMessages(o) \cup {"no_vector"}
                    /\ vpc' = "idle"
                    /\ UNCHANGED <<searchArgs, searchCalls, payload, results>>
               ELSE IF SearchRejects(query_vector_list)
               THEN /\ vMsgs' = vMsgs \cup {"empty_vector", "no_results"}
                    /\ vpc' = "idle"
                    /\ results' = NoneResult
                    /\ searchArgs' = args
                    /\ UNCHANGED <<searchCalls, payload>>
               ELSE /\ vMsgs' = vMsgs \cup VectorizeMessages(o)
                    /\ vpc' = "searching"
                    /\ searchArgs' = args
                    /\ searchCalls' = searchCalls + 1
                    /\ payload' = SearchPayload(vector_search_url(secret), args)
                    /\ UNCHANGED results
    /\ UNCHANGED <<secret, vecCalls, vExc, submits, varsEndpoint, varsFormat, varsApi,
                   varsDispatch, varsCopilot>>

\* POST /VectorSearch resolves; main shows the table or "No results returned".
SearchResolve ==
    /\ vpc = "searching"
    /\ vpc' = "idle"
    /\ \E o \in SearchOutcomes :
        /\ results' = SearchReturns(o)
        /\ vMsgs' = vMsgs \cup SearchMessages(o)
                        \cup (IF Truthy(SearchReturns(o)) THEN {} ELSE {"no_results"})
    /\ UNCHANGED <<secret, searchArgs, vecOutcome, vecCalls, searchCalls, payload, vExc,
                   submits, varsEndpoint, varsFormat, varsApi, varsDispatch, varsCopilot>>

NextVector == Submit \/ VectorizeResolve \/ SearchResolve

SpecVector == InitVector /\ [][NextVector]_vars

-----------------------------------------------------------------------------
(* handle_vector_search called on every embedding *)

DirectScores == {800, 804}

InitSearch ==
    /\ secret = <<"x">>
    /\ vpc = "calling"
    /\ searchArgs \in [query_vector_list : ListsUpTo(NumberElems, MaxDim),
                       max_results : MaxResultsChoices,
                       minimum_similarity_score : DirectScores]
    /\ vecOutcome = NoOutcome
    /\ vecCalls = 0
    /\ searchCalls = 0
    /\ payload = NoPayload
    /\ results = NoResult
    /\ vMsgs = {}
    /\ vExc = "none"
    /\ submits = 0
    /\ IdleEndpoint /\ IdleFormat /\ IdleApi /\ IdleDispatch /\ IdleCopilot

\* handle_vector_search up to its POST, or to its early return
CallVectorSearch ==
    /\ vpc = "calling"
    /\ IF SearchRejects(searchArgs.query_vector_list)
       THEN /\ vMsgs' = {"empty_vector"}
            /\ results' = NoneResult
            /\ vpc' = "returned"
            /\ UNCHANGED <<searchCalls, payload>>
       ELSE /\ searchCalls' = searchCalls + 1
            /\ payload' = SearchPayload(vector_search_url(secret), searchArgs)
            /\ vpc' = "posting"
            /\ UNCHANGED <<vMsgs, results>>
    /\ UNCHANGED <<secret, searchArgs, vecOutcome, vecCalls, vExc, submits, varsEndpoint,
                   varsFormat, varsApi, varsDispatch, varsCopilot>>

\* the POST resolves and handle_vector_search returns
SearchReturn ==
    /\ vpc = "posting"
    /\ vpc' = "returned"
    /\ \E o \in SearchOutcomes :
        /\ results' = SearchReturns(o)
        /\ vMsgs' = SearchMessages(o)
    /\ UNCHANGED <<secret, searchArgs, vecOutcome, vecCalls, searchCalls, payload, vExc,
                   submits, varsEndpoint, varsFormat, varsApi, varsDispatch, varsCopilot>>

NextSearch == CallVectorSearch \/ SearchReturn

SpecSearch == InitSearch /\ [][NextSearch]_vars

-----------------------------------------------------------------------------
(* Properties *)

Last(q) == q[Len(q)]
ButLast(q) == q[Len(q) - 1]
Configured == get_api_endpoint(secret) # <<>>

\* C1: for every configured endpoint text, get_api_endpoint returns a text that
\* starts with https:// and ends with /api exactly once (never /api/api).
C1_Normalized ==
    resolved # Unset /\ secret # Missing
        => /\ StartsWith(resolved, Https)
           /\ EndsWith(resolved, Api)
           /\ ~EndsWith(resolved, Api \o Api)

\* C2: in one session get_hotels() issues at most one GET /Hotels and
\* get_hotel_bookings(id) at most one GET per id, the first call's own, whether it
\* succeeded or failed; every later call returns what the first returned.
C2_Memoized ==
    /\ netCount.hotels = (IF retHotels # <<>> /\ Configured THEN 1 ELSE 0)
    /\ \A k \in 1..Len(retHotels) : retHotels[k] = retHotels[1]
    /\ \A i \in HotelIds :
        /\ netCount.bookings[i] = (IF retBookings[i] # <<>> /\ Configured THEN 1 ELSE 0)
        /\ \A k \in 1..Len(retBookings[i]) : retBookings[i][k] = retBookings[i][1]

\* a hotel list that was fetched and a bookings fetch that timed out, each asked
\* for again in a later render
C2_Witness ==
    /\ Len(retHotels) >= 2 /\ netCount.hotels = 1 /\ fetched.hotels.status = "ok"
    /\ \E i \in HotelIds :
        /\ Len(retBookings[i]) >= 2
        /\ netCount.bookings[i] = 1
        /\ fetched.bookings[i].status = "timeout"

\* C3: handle_vector_search called with an empty embedding issues no request and
\* returns None with the "query vector is empty" error; no POST /VectorSearch is
\* ever sent whose queryVector is empty.
C3_EmptyEmbedding ==
    /\ vpc = "returned" /\ searchArgs.query_vector_list = <<>>
        => /\ searchCalls = 0
           /\ payload = NoPayload
           /\ results = NoneResult
           /\ vMsgs = {"empty_vector"}
    /\ vpc = "posting" => searchArgs.query_vector_list # <<>>
    /\ searchCalls > 0 => payload.queryVector # <<>>

C3_Witness ==
    vpc = "returned" /\ searchArgs.query_vector_list = <<>> /\ results = NoneResult

C5_ErrorsContained ==
    /\ vExc = "none"
    /\ secret = Missing => vecCalls = 0 /\ searchCalls = 0

\* C6 as claimed: on a 2xx body both dispatchers return the `message` value of a
\* dictionary that has one, an error that echoes the raw payload for any other JSON,
\* and the raw text itself for a body that is no JSON.
ClaimedDispatch(out, body) ==
    IF body.kind = "dict" /\ body.hasMessage THEN out = body.message
    ELSE IF body.kind # "notjson" THEN out # body.text /\ Contains(out, body.text)
    ELSE out = body.text

Count(t, c) == Cardinality({i \in 1..Len(t) : t[i] = c})
NumeralDots(t) ==
    Cardinality({i \in 1..(Len(t) - 1) :
                    t[i + 1] = "." /\ \E d \in 1..9 : t[i] = Digits[d]})

C7_Format ==
    fmtOut # Unset
        => /\ ~Contains(fmtOut, <<BS, "n">>)
           /\ NumeralDots(fmtOut) = 0
           /\ Count(fmtOut, "-") = Count(fmtIn, "-") + NumeralDots(fmtIn)
           /\ fmtIn = NumberedListText => fmtOut = BulletListText

C7_Witness == fmtIn = NumberedListText /\ fmtOut = BulletListText

\* C8: between prompts the transcript has even length and its roles alternate
\* user, assistant, starting with user (each prompt added one user entry followed
\* by one assistant entry).
C8_Alternating ==
    cpc = "idle"
        => /\ Len(chat_messages) % 2 = 0
           /\ \A i \in 1..Len(chat_messages) :
                chat_messages[i].role = (IF i % 2 = 1 THEN "user" ELSE "assistant")

\* C9: in one run of Submit at most one GET /Vectorize and one POST /VectorSearch
\* are issued, the POST only after the GET's answer was received and passed the
\* check for a non-empty list of numbers, and none at all when the GET failed, timed
\* out or answered anything else; nothing is sent again.
C9_OneChain ==
    /\ vecCalls <= 1 /\ searchCalls <= 1
    /\ vpc = "vectorizing" => vecCalls = 1 /\ searchCalls = 0 /\ vecOutcome = NoOutcome
    /\ vpc = "searching" => searchCalls = 1
    /\ searchCalls = 1
        => /\ vecCalls = 1
           /\ vecOutcome.status = "ok"
           /\ vecOutcome.body.kind = "list"
           /\ vecOutcome.body.items # <<>>
           /\ \A i \in 1..Len(vecOutcome.body.items) : PyIsNumber(vecOutcome.body.items[i])
           /\ Len(payload.queryVector) = Len(vecOutcome.body.items)
    /\ vecOutcome # NoOutcome /\ searchCalls = 0 => vpc = "idle"

C9_Witness ==
    /\ submits = 2 /\ vpc = "idle" /\ vecCalls = 1 /\ searchCalls = 1
    /\ results = JList(<<ResultRow>>)

\* C10: the assistant turn stored after a reply equals one application of
\* format_response to the reply text (formatting it twice changes nothing).
ReplyText(body) == IF body.kind = "dict" /\ body.hasMessage THEN body.message ELSE body.text

C10_FormattedOnce ==
    cpc = "idle" /\ copilotOutcome.status = "ok" /\ ~Raised(copilotResult)
        => Last(chat_messages) =
             Turn("assistant", format_response(ReplyText(copilotOutcome.body)))

====
